---- MODULE Spec2Model ----
(***************************************************************************)
(* Model of server/connectivity.py: the NatHelper pending table, the lazy  *)
(* NatPacketServer singleton and the ConnectivityTest coroutine, run on an *)
(* asyncio event loop.  A task runs from one suspension point to the next  *)
(* as one step; wake-ups are served in FIFO order from the loop's ready    *)
(* queue; packet arrival, timers, listen() completion and task.cancel()    *)
(* are callbacks of the environment.                                       *)
(***************************************************************************)
EXTENDS Integers, Sequences, FiniteSets, TLC

\* ------------------------------------------------------------------ bounds
NumRuns == 2          \* concurrent ConnectivityTest runs (and NatHelper callers)
MaxCancels == 1       \* task.cancel() calls per run

\* ------------------------------------------------------- program constants
PublicSends == 3      \* range(0, 3) in test_public
StunRounds == 3       \* range(0, 3) in test_stun

Runs == 1 .. NumRuns
\* Address: the (host, port) pairs packets come from
Addrs == {<<"10.0.0.5", 6112>>, <<"203.0.113.9", 51000>>}
\* Python's None; whatever may be None is modelled as a tuple
None == <<>>
NoFut == 0

\* "{}:{}".format(*address): a string, never equal to the (host, port) tuple
FormatAddr(a) == <<"host:port", a[1], a[2]>>

\* self.remote_addr = (host, port); self.identifier = identifier
remote_addr(r) == IF r = 1 THEN <<"10.0.0.5", 6112>> ELSE <<"203.0.113.9", 51000>>
identifier(r) == r

\* "Are you public? {}".format(self.identifier)
\* a probe text that does not carry the identifier
PublicMessageNoId(i) == <<"Are you public?", 1>>

PublicMessage(i) == <<"Are you public?", i>>
\* "Hello {}".format(self.identifier)
HelloMessage(i) == <<"Hello", i>>
Messages == {PublicMessage(i) : i \in Runs} \cup {HelloMessage(i) : i \in Runs}

\* ConnectivityState and Connectivity = namedtuple('Connectivity', ['addr', 'state'])
ConnectivityState == {"PUBLIC", "STUN", "PROXY"}
Connectivity(addr, state) == [addr |-> addr, state |-> state]
NoResult == [addr |-> None, state |-> "unset"]

VARIABLES
  pc,           \* per run: where the determine_connectivity task is suspended
  round,        \* per run: STUN rounds started so far (i + 1 of the loop)
  ready,        \* the event loop's FIFO of task wake-ups
  coro,         \* per caller: the wait_for_natpacket coroutine
  fut,          \* per caller: the asyncio.Future made by wait_for_natpacket
  nat_packets,  \* NatHelper.nat_packets: message -> future (NoFut: no key)
  natserver,    \* the global _natserver and its listen() call
  waiters,      \* NatPacketServer's table: message -> run whose future is kept
  sfut,         \* per run: the future of the current STUN round
  tfired,       \* per run: the timer of the current wait has fired
  cancelReq,    \* per run: a CancelledError is pending for the task
  result,       \* per run: the Connectivity returned
  exc,          \* per run: the exception determine_connectivity raised
  error,        \* an exception raised inside a callback (InvalidStateError)
  hist          \* history of the run: what was sent, delivered, cancelled

vars == <<pc, round, ready, coro, fut, nat_packets, natserver, waiters, sfut,
          tfired, cancelReq, result, exc, error, hist>>

RunTask(r) == <<"run", r>>
NatTask(w) == <<"nat", w>>

\* loop.call_soon of a task's wake-up: a task has at most one wake-up queued
InQueue(q, t) == \E i \in 1 .. Len(q) : q[i] = t
Enqueue(q, t) == IF InQueue(q, t) THEN q ELSE Append(q, t)
IsHead(t) == Len(ready) > 0 /\ Head(ready) = t

NoCoro == [st |-> "none", message |-> None, sender |-> None, ret |-> None,
           mustCancel |-> FALSE, seq |-> 0]
NoFuture == [state |-> "none", value |-> None]
PendingFuture == [state |-> "pending", value |-> None]
Done(f) == f.state \in {"result", "cancelled"}

NoHist == [sends |-> 0, earlySends |-> 0, pubHit |-> FALSE, pubAny |-> FALSE,
           stunSrc |-> None, stunAny |-> FALSE, cancels |-> 0, cancelAt |-> {},
           cancelRound |-> 0, dup |-> FALSE, late |-> FALSE]

\* _natserver when the runs begin: None (line 13), or left by an earlier run whose
\* listen() completed, or did not
NatServerAtStart ==
  {[obj |-> None, listen |-> "idle", listener |-> 0, made |-> 0, listens |-> 0]} \cup
  {[obj |-> <<"NatPacketServer">>, listen |-> l, listener |-> 0, made |-> 1, listens |-> 1] :
     l \in {"ok", "failed"}}

Init ==
  /\ pc = [r \in Runs |-> "init"]
  /\ round = [r \in Runs |-> 0]
  /\ ready = <<>>
  /\ coro = [r \in Runs |-> NoCoro]
  /\ fut = [r \in Runs |-> NoFuture]
  /\ nat_packets = [m \in Messages |-> NoFut]
  /\ natserver \in NatServerAtStart
  /\ waiters = [m \in Messages |-> NoFut]
  /\ sfut = [r \in Runs |-> NoFuture]
  /\ tfired = [r \in Runs |-> FALSE]
  /\ cancelReq = [r \in Runs |-> FALSE]
  /\ result = [r \in Runs |-> NoResult]
  /\ exc = [r \in Runs |-> "none"]
  /\ error = FALSE
  /\ hist = [r \in Runs |-> NoHist]


\* ------------------------------------------------------------- NatHelper

\* a registration that keeps the future already kept for the message
RegisterFirstWins(np, message, f) ==
  IF np[message] # NoFut THEN np ELSE [np EXCEPT ![message] = f]

\* wait_for_natpacket, line 50: self.nat_packets[message] = fut
Register(np, message, f) == [np EXCEPT ![message] = f]

\* a return that does not look at the sender
ReturnAnySender(addr, msg, message, sender) ==
  IF msg = message THEN <<addr, msg>> ELSE None

\* wait_for_natpacket, lines 53-58: the value returned once the future has a result
wait_for_natpacket_return(addr, msg, message, sender) ==
  IF (addr = sender \/ sender = None) /\ msg = message THEN <<addr, msg>> ELSE None

\* a packet handler without the done() test of line 63
ResolvesDone(np, fs, message) == np[message] # NoFut

\* process_nat_packet, lines 62-63: the key is present and its future is not done
Resolves(np, fs, message) == np[message] # NoFut /\ ~Done(fs[np[message]])

\* process_nat_packet, line 64: set_result((address, message))
SetResult(fs, f, address, message) ==
  [fs EXCEPT ![f] = [state |-> "result", value |-> <<address, message>>]]

\* a packet handler that leaves the key in the table
DeleteNothing(np, message) == np

\* process_nat_packet, line 65: del self.nat_packets[message]
Delete(np, message) == [np EXCEPT ![message] = NoFut]

\* asyncio Task.cancel() of a wait_for_natpacket task: a pending awaited future is
\* cancelled and the task woken; otherwise CancelledError is thrown at its next step
CancelFut(fs, cs, w) ==
  IF cs[w].st = "awaiting" /\ fs[w].state = "pending"
  THEN [fs EXCEPT ![w].state = "cancelled"] ELSE fs
CancelCoro(fs, cs, w) ==
  IF cs[w].st = "created" \/ (cs[w].st = "awaiting" /\ fs[w].state # "pending")
  THEN [cs EXCEPT ![w].mustCancel = TRUE] ELSE cs
CancelReady(q, fs, cs, w) ==
  IF cs[w].st = "awaiting" /\ fs[w].state = "pending" THEN Enqueue(q, NatTask(w)) ELSE q

\* history: w's registration is the n-th one made for its message
RegistrationNo(w) ==
  1 + Cardinality({v \in Runs : coro[v].message = coro[w].message /\ coro[v].seq > 0})

\* first step of the wait_for_natpacket task: lines 49-52, up to "await fut"
NatRegister(w) ==
  /\ IsHead(NatTask(w))
  /\ coro[w].st = "created"
  /\ IF coro[w].mustCancel
     THEN /\ coro' = [coro EXCEPT ![w].st = "cancelled"]
          /\ UNCHANGED <<fut, nat_packets>>
     ELSE /\ fut' = [fut EXCEPT ![w] = PendingFuture]
          /\ nat_packets' = Register(nat_packets, coro[w].message, w)
          /\ coro' = [coro EXCEPT ![w].st = "awaiting", ![w].seq = RegistrationNo(w)]
  /\ ready' = Tail(ready)
  /\ UNCHANGED <<pc, round, natserver, waiters, sfut, tfired, cancelReq, result, exc,
                 error, hist>>

\* the task resumes from "await fut": lines 52-58
NatResume(w) ==
  /\ IsHead(NatTask(w))
  /\ coro[w].st = "awaiting"
  /\ IF coro[w].mustCancel \/ fut[w].state # "result"
     THEN coro' = [coro EXCEPT ![w].st = "cancelled"]
     ELSE coro' = [coro EXCEPT ![w].st = "returned",
                                ![w].ret = wait_for_natpacket_return(
                                   fut[w].value[1], fut[w].value[2],
                                   coro[w].message, coro[w].sender)]
  \* the done callback wait_for added to the task wakes the run
  /\ ready' = IF pc[w] = "pub_wait" THEN Enqueue(Tail(ready), RunTask(w)) ELSE Tail(ready)
  /\ UNCHANGED <<pc, round, fut, nat_packets, natserver, waiters, sfut, tfired, cancelReq,
                 result, exc, error, hist>>

\* what the delivery of (address, message) means to run r (history only)
PacketHist(h, r, message) ==
  LET h1 == IF message = PublicMessage(identifier(r)) /\ pc[r] = "pub_wait"
            THEN [h EXCEPT !.pubAny = TRUE, !.pubHit = h.pubHit \/ ~tfired[r]]
            ELSE h
      h2 == IF message = coro[r].message /\ coro[r].st = "awaiting" /\ fut[r].state = "result"
            THEN [h1 EXCEPT !.dup = TRUE] ELSE h1
  IN  IF message = PublicMessage(identifier(r)) /\ pc[r] \in {"stun_sleep", "stun_wait", "done"}
      THEN [h2 EXCEPT !.late = TRUE] ELSE h2

\* process_nat_packet(address, message), lines 60-65; Future.set_result raises
\* InvalidStateError on a future that is done
process_nat_packet(address, message) ==
  /\ IF Resolves(nat_packets, fut, message)
     THEN LET f == nat_packets[message] IN
          IF Done(fut[f])
          THEN error' = TRUE /\ UNCHANGED <<fut, nat_packets, ready>>
          ELSE /\ fut' = SetResult(fut, f, address, message)
               /\ nat_packets' = Delete(nat_packets, message)
               /\ ready' = Enqueue(ready, NatTask(f))
               /\ UNCHANGED error
     ELSE UNCHANGED <<fut, nat_packets, ready, error>>
  /\ hist' = [r \in Runs |-> PacketHist(hist[r], r, message)]
  /\ UNCHANGED <<pc, round, coro, natserver, waiters, sfut, tfired, cancelReq, result, exc>>

\* -------------------------------------------------------- ConnectivityTest

\* a result that reports the dialed address for STUN
ResultDialedAddr(r, public, addr) ==
  IF public THEN Connectivity(FormatAddr(remote_addr(r)), "PUBLIC")
  ELSE IF addr # None THEN Connectivity(FormatAddr(remote_addr(r)), "STUN")
  ELSE Connectivity(None, "PROXY")

\* a result that reports PUBLIC for the address test_stun found
ResultPublicAfterStun(r, public, addr) ==
  IF public \/ addr # None THEN Connectivity(FormatAddr(remote_addr(r)), "PUBLIC")
  ELSE Connectivity(None, "PROXY")

\* a result without the "if addr" test of line 115
ResultNoAddrTest(r, public, addr) ==
  IF public THEN Connectivity(FormatAddr(remote_addr(r)), "PUBLIC")
  ELSE Connectivity(addr, "STUN")

\* determine_connectivity, lines 112-118: the result from the two tests' outcomes
determine_connectivity(r, public, addr) ==
  IF public THEN Connectivity(FormatAddr(remote_addr(r)), "PUBLIC")
  ELSE IF addr # None THEN Connectivity(addr, "STUN")
  ELSE Connectivity(None, "PROXY")

\* a fallback that keeps the dialed address
ExceptKeepsAddr(r) == Connectivity(FormatAddr(remote_addr(r)), "PROXY")

\* determine_connectivity, lines 119-121: TimeoutError or CancelledError got out
determine_connectivity_except(r) == Connectivity(None, "PROXY")

\* a handler that catches every exception
CaughtAll(e) == TRUE

\* a handler that catches nothing
CaughtNothing(e) == FALSE

\* determine_connectivity, line 119: the exceptions the handler catches
Caught(e) == e \in {"TimeoutError", "CancelledError"}

\* the task of determine_connectivity ends with a value, or with exception e
Return(r, c) ==
  /\ pc' = [pc EXCEPT ![r] = "done"]
  /\ result' = [result EXCEPT ![r] = c]
  /\ UNCHANGED exc
Raise(r, e) ==
  IF Caught(e) THEN Return(r, determine_connectivity_except(r))
  ELSE /\ pc' = [pc EXCEPT ![r] = "raised"]
       /\ exc' = [exc EXCEPT ![r] = e]
       /\ UNCHANGED result

\* the caller makes the task of determine_connectivity()
Start(r) ==
  /\ pc[r] = "init"
  /\ coro[r].st = "none"
  /\ pc' = [pc EXCEPT ![r] = "start"]
  /\ ready' = Append(ready, RunTask(r))
  /\ UNCHANGED <<round, coro, fut, nat_packets, natserver, waiters, sfut, tfired,
                 cancelReq, result, exc, error, hist>>

\* test_public, lines 125-126: the coroutine object is made, none of it has run
MakeCoroutine(r) ==
  [coro EXCEPT ![r] = [st |-> "created", message |-> PublicMessage(identifier(r)),
                       sender |-> None, ret |-> None, mustCancel |-> FALSE, seq |-> 0]]

\* a test_public that sends the probe once
SendOnceAndWait(r) ==
  /\ hist' = [hist EXCEPT ![r].sends = 1,
                          ![r].earlySends = IF natserver.listen = "ok" THEN 0
                                            ELSE 1 - hist[r].sends]
  /\ ready' = Append(Tail(ready), NatTask(r))
  /\ pc' = [pc EXCEPT ![r] = "pub_wait"]
  /\ tfired' = [tfired EXCEPT ![r] = FALSE]

\* send_natpacket, line 20, for the sends of test_public's loop still to do, then
\* line 130: wait_for makes the task of received_packet and the run suspends
SendAndWait(r) ==
  /\ hist' = [hist EXCEPT ![r].sends = PublicSends,
                          ![r].earlySends = IF natserver.listen = "ok" THEN 0
                                            ELSE PublicSends - hist[r].sends]
  /\ ready' = Append(Tail(ready), NatTask(r))
  /\ pc' = [pc EXCEPT ![r] = "pub_wait"]
  /\ tfired' = [tfired EXCEPT ![r] = FALSE]

\* a send_natpacket that assigns _natserver only after listen() has completed
BeginListenLateAssign(r) ==
  /\ IsHead(RunTask(r))
  /\ pc[r] = "start"
  /\ natserver.obj = None
  /\ coro' = MakeCoroutine(r)
  /\ natserver' = [obj |-> None, listen |-> "pending", listener |-> r,
                   made |-> natserver.made + 1, listens |-> natserver.listens + 1]
  /\ pc' = [pc EXCEPT ![r] = "listen"]
  /\ ready' = Tail(ready)
  /\ UNCHANGED <<round, fut, nat_packets, waiters, sfut, tfired, cancelReq, result, exc,
                 error, hist>>

\* first step, _natserver is None: lines 17-19, suspended in listen()
BeginListen(r) ==
  /\ IsHead(RunTask(r))
  /\ pc[r] = "start"
  /\ natserver.obj = None
  /\ coro' = MakeCoroutine(r)
  /\ natserver' = [obj |-> <<"NatPacketServer">>, listen |-> "pending", listener |-> r,
                   made |-> natserver.made + 1, listens |-> natserver.listens + 1]
  /\ pc' = [pc EXCEPT ![r] = "listen"]
  /\ ready' = Tail(ready)
  /\ UNCHANGED <<round, fut, nat_packets, waiters, sfut, tfired, cancelReq, result, exc,
                 error, hist>>

\* first step, _natserver is set: the three sends, then the wait
BeginSend(r) ==
  /\ IsHead(RunTask(r))
  /\ pc[r] = "start"
  /\ natserver.obj # None
  /\ coro' = MakeCoroutine(r)
  /\ SendAndWait(r)
  /\ UNCHANGED <<round, fut, nat_packets, natserver, waiters, sfut, cancelReq, result,
                 exc, error>>

\* NatPacketServer.listen() completes, or fails to bind
ListenDone ==
  /\ natserver.listen = "pending"
  /\ natserver' = [natserver EXCEPT !.listen = "ok"]
  /\ ready' = Enqueue(ready, RunTask(natserver.listener))
  /\ UNCHANGED <<pc, round, coro, fut, nat_packets, waiters, sfut, tfired, cancelReq,
                 result, exc, error, hist>>
ListenFail ==
  /\ natserver.listen = "pending"
  /\ natserver' = [natserver EXCEPT !.listen = "failed"]
  /\ ready' = Enqueue(ready, RunTask(natserver.listener))
  /\ UNCHANGED <<pc, round, coro, fut, nat_packets, waiters, sfut, tfired, cancelReq,
                 result, exc, error, hist>>

\* the run resumes in send_natpacket, line 19, listen() done: line 20 and the wait
ListenOk(r) ==
  /\ IsHead(RunTask(r))
  /\ pc[r] = "listen"
  /\ ~cancelReq[r]
  /\ natserver.listen = "ok"
  /\ SendAndWait(r)
  /\ UNCHANGED <<round, coro, fut, nat_packets, natserver, waiters, sfut, cancelReq,
                 result, exc, error>>

\* listen() raised: the exception leaves test_public and meets line 119
ListenRaised(r) ==
  /\ IsHead(RunTask(r))
  /\ pc[r] = "listen"
  /\ ~cancelReq[r]
  /\ natserver.listen = "failed"
  /\ Raise(r, "OSError")
  /\ ready' = Tail(ready)
  /\ UNCHANGED <<round, coro, fut, nat_packets, natserver, waiters, sfut, tfired,
                 cancelReq, error, hist>>

\* cancelled while in listen(): CancelledError leaves test_public and meets line 119
ListenCancelled(r) ==
  /\ IsHead(RunTask(r))
  /\ pc[r] = "listen"
  /\ cancelReq[r]
  /\ Raise(r, "CancelledError")
  /\ cancelReq' = [cancelReq EXCEPT ![r] = FALSE]
  /\ ready' = Tail(ready)
  /\ UNCHANGED <<round, coro, fut, nat_packets, natserver, waiters, sfut, tfired, error,
                 hist>>


\* test_stun, lines 140-144: one turn of the loop up to the sleep.  await_packet
\* keeps a new future under the message; send_gpgnet_message asks for the relay
StunRound(r) ==
  /\ waiters' = [waiters EXCEPT ![HelloMessage(identifier(r))] = r]
  /\ sfut' = [sfut EXCEPT ![r] = PendingFuture]
  /\ round' = [round EXCEPT ![r] = round[r] + 1]
  /\ pc' = [pc EXCEPT ![r] = "stun_sleep"]
  /\ tfired' = [tfired EXCEPT ![r] = FALSE]

\* test_stun, lines 139 and 149-150: the next turn of the loop, or the loop is over
\* and test_stun returns None
NextRound(r) ==
  IF round[r] < StunRounds
  THEN StunRound(r) /\ UNCHANGED <<result, exc>>
  ELSE /\ Return(r, determine_connectivity(r, FALSE, None))
       /\ UNCHANGED <<waiters, round, tfired>>
       /\ sfut' = [sfut EXCEPT ![r].state =
                     IF sfut[r].state = "pending" THEN "cancelled" ELSE sfut[r].state]

\* a timer of the loop fires: wait_for's timeout (1 or 0.5) or the sleep (0.1)
TimerFire(r) ==
  /\ pc[r] \in {"pub_wait", "stun_sleep", "stun_wait"}
  /\ ~tfired[r]
  /\ tfired' = [tfired EXCEPT ![r] = TRUE]
  /\ ready' = Enqueue(ready, RunTask(r))
  /\ UNCHANGED <<pc, round, coro, fut, nat_packets, natserver, waiters, sfut, cancelReq,
                 result, exc, error, hist>>

\* the caller cancels the task while it is suspended
Cancel(r) ==
  /\ pc[r] \in {"listen", "pub_wait", "stun_sleep", "stun_wait"}
  /\ hist[r].cancels < MaxCancels
  /\ cancelReq' = [cancelReq EXCEPT ![r] = TRUE]
  /\ ready' = Enqueue(ready, RunTask(r))
  /\ natserver' = IF pc[r] = "listen" /\ natserver.listen = "pending"
                  THEN [natserver EXCEPT !.listen = "cancelled"] ELSE natserver
  /\ hist' = [hist EXCEPT ![r].cancels = hist[r].cancels + 1,
                          ![r].cancelAt = hist[r].cancelAt \cup {pc[r]},
                          ![r].cancelRound = IF pc[r] \in {"stun_sleep", "stun_wait"}
                                             THEN round[r] ELSE hist[r].cancelRound]
  /\ UNCHANGED <<pc, round, coro, fut, nat_packets, waiters, sfut, tfired, result, exc,
                 error>>

\* test_public, lines 130-132: wait_for returns the task's result
PubSuccess(r) ==
  /\ IsHead(RunTask(r))
  /\ pc[r] = "pub_wait"
  /\ ~cancelReq[r]
  /\ coro[r].st = "returned"
  /\ Return(r, determine_connectivity(r, TRUE, None))
  /\ ready' = Tail(ready)
  /\ UNCHANGED <<round, coro, fut, nat_packets, natserver, waiters, sfut, tfired,
                 cancelReq, error, hist>>

\* test_public, lines 133-134: wait_for cancels the task and raises TimeoutError;
\* then test_stun, lines 137-144
PubTimeout(r) ==
  /\ IsHead(RunTask(r))
  /\ pc[r] = "pub_wait"
  /\ ~cancelReq[r]
  /\ coro[r].st # "returned"
  /\ fut' = CancelFut(fut, coro, r)
  /\ coro' = CancelCoro(fut, coro, r)
  /\ ready' = CancelReady(Tail(ready), fut, coro, r)
  /\ StunRound(r)
  /\ UNCHANGED <<nat_packets, natserver, cancelReq, result, exc, error, hist>>

\* a test_public whose handler catches TimeoutError only: CancelledError gets out
PubCancelledRaises(r) ==
  /\ IsHead(RunTask(r))
  /\ pc[r] = "pub_wait"
  /\ cancelReq[r]
  /\ fut' = CancelFut(fut, coro, r)
  /\ coro' = CancelCoro(fut, coro, r)
  /\ ready' = CancelReady(Tail(ready), fut, coro, r)
  /\ cancelReq' = [cancelReq EXCEPT ![r] = FALSE]
  /\ Raise(r, "CancelledError")
  /\ UNCHANGED <<round, waiters, sfut, tfired, nat_packets, natserver, error, hist>>

\* test_public, lines 133-134: CancelledError is thrown into wait_for, which cancels
\* the task and raises it again; then test_stun, lines 137-144
PubCancelled(r) ==
  /\ IsHead(RunTask(r))
  /\ pc[r] = "pub_wait"
  /\ cancelReq[r]
  /\ fut' = CancelFut(fut, coro, r)
  /\ coro' = CancelCoro(fut, coro, r)
  /\ ready' = CancelReady(Tail(ready), fut, coro, r)
  /\ cancelReq' = [cancelReq EXCEPT ![r] = FALSE]
  /\ StunRound(r)
  /\ UNCHANGED <<nat_packets, natserver, result, exc, error, hist>>

\* test_stun, lines 144-146: the sleep is over, wait_for(fut, 0.5) suspends
SleepDone(r) ==
  /\ IsHead(RunTask(r))
  /\ pc[r] = "stun_sleep"
  /\ ~cancelReq[r]
  /\ pc' = [pc EXCEPT ![r] = "stun_wait"]
  /\ tfired' = [tfired EXCEPT ![r] = FALSE]
  \* a future that is done calls wait_for's callback at once
  /\ ready' = IF Done(sfut[r]) THEN Append(Tail(ready), RunTask(r)) ELSE Tail(ready)
  /\ UNCHANGED <<round, coro, fut, nat_packets, natserver, waiters, sfut, cancelReq,
                 result, exc, error, hist>>

\* test_stun, line 144: CancelledError in the sleep is outside the try of line 145
SleepCancelled(r) ==
  /\ IsHead(RunTask(r))
  /\ pc[r] = "stun_sleep"
  /\ cancelReq[r]
  /\ Raise(r, "CancelledError")
  /\ cancelReq' = [cancelReq EXCEPT ![r] = FALSE]
  /\ ready' = Tail(ready)
  /\ UNCHANGED <<round, coro, fut, nat_packets, natserver, waiters, sfut, tfired, error,
                 hist>>

\* a test_stun that goes on with the loop whatever text it received
StunSuccessGoesOn(r) ==
  /\ IsHead(RunTask(r))
  /\ pc[r] = "stun_wait"
  /\ ~cancelReq[r]
  /\ sfut[r].state = "result"
  /\ NextRound(r)
  /\ ready' = Tail(ready)
  /\ UNCHANGED <<coro, fut, nat_packets, natserver, cancelReq, error, hist>>

\* test_stun, lines 146-148, and determine_connectivity, lines 115-116
StunSuccess(r) ==
  /\ IsHead(RunTask(r))
  /\ pc[r] = "stun_wait"
  /\ ~cancelReq[r]
  /\ sfut[r].state = "result"
  /\ IF sfut[r].value[1] = HelloMessage(identifier(r))
     THEN /\ Return(r, determine_connectivity(r, FALSE, sfut[r].value[2]))
          /\ UNCHANGED <<waiters, sfut, round, tfired>>
     ELSE NextRound(r)
  /\ ready' = Tail(ready)
  /\ UNCHANGED <<coro, fut, nat_packets, natserver, cancelReq, error, hist>>

\* test_stun, lines 149-150: wait_for cancels the future and raises TimeoutError
StunTimeout(r) ==
  /\ IsHead(RunTask(r))
  /\ pc[r] = "stun_wait"
  /\ ~cancelReq[r]
  /\ sfut[r].state # "result"
  /\ NextRound(r)
  /\ ready' = Tail(ready)
  /\ UNCHANGED <<coro, fut, nat_packets, natserver, cancelReq, error, hist>>

\* test_stun, lines 149-150: CancelledError thrown into wait_for is caught there
StunCancelled(r) ==
  /\ IsHead(RunTask(r))
  /\ pc[r] = "stun_wait"
  /\ cancelReq[r]
  /\ NextRound(r)
  /\ cancelReq' = [cancelReq EXCEPT ![r] = FALSE]
  /\ ready' = Tail(ready)
  /\ UNCHANGED <<coro, fut, nat_packets, natserver, error, hist>>


\* ------------------------------------------------------- NatPacketServer

\* what the datagram (address, message) means to run r (history only)
DatagramHist(h, r, address, message) ==
  IF message = HelloMessage(identifier(r)) /\ pc[r] \in {"stun_sleep", "stun_wait"}
  THEN [h EXCEPT !.stunAny = TRUE,
                 !.stunSrc = IF h.stunSrc = None /\ (pc[r] = "stun_sleep" \/ ~tfired[r])
                             THEN address ELSE h.stunSrc]
  ELSE h

\* the listening NatPacketServer receives a datagram: the future kept for the text
\* by await_packet gets (message, "host:port" of the source) and leaves the table
datagram_received(address, message) ==
  /\ natserver.listen = "ok"
  /\ IF waiters[message] # NoFut /\ sfut[waiters[message]].state = "pending"
     THEN LET r == waiters[message] IN
          /\ sfut' = [sfut EXCEPT ![r] = [state |-> "result",
                        value |-> <<message, FormatAddr(address)>>]]
          /\ waiters' = [waiters EXCEPT ![message] = NoFut]
          /\ ready' = IF pc[r] = "stun_wait" THEN Enqueue(ready, RunTask(r)) ELSE ready
     ELSE UNCHANGED <<sfut, waiters, ready>>
  /\ hist' = [r \in Runs |-> DatagramHist(hist[r], r, address, message)]
  /\ UNCHANGED <<pc, round, coro, fut, nat_packets, natserver, tfired, cancelReq, result,
                 exc, error>>

\* ------------------------------------------------- callers of NatHelper

NatTexts == {PublicMessage(1), HelloMessage(1)}
NatSenders == {None, <<"10.0.0.5", 6112>>}

\* a caller makes a task of wait_for_natpacket(message, sender)
NatCall(w, message, sender) ==
  /\ pc[w] = "init"
  /\ coro[w].st = "none"
  /\ coro' = [coro EXCEPT ![w] = [st |-> "created", message |-> message,
                                  sender |-> sender, ret |-> None,
                                  mustCancel |-> FALSE, seq |-> 0]]
  /\ ready' = Append(ready, NatTask(w))
  /\ UNCHANGED <<pc, round, fut, nat_packets, natserver, waiters, sfut, tfired,
                 cancelReq, result, exc, error, hist>>

\* the caller gives up: it cancels the task (as wait_for does on its timeout)
NatCancel(w) ==
  /\ pc[w] = "init"
  /\ coro[w].st \in {"created", "awaiting"}
  /\ ~coro[w].mustCancel
  /\ fut[w].state # "cancelled"
  /\ fut' = CancelFut(fut, coro, w)
  /\ coro' = CancelCoro(fut, coro, w)
  /\ ready' = CancelReady(ready, fut, coro, w)
  /\ UNCHANGED <<pc, round, nat_packets, natserver, waiters, sfut, tfired, cancelReq,
                 result, exc, error, hist>>

\* ------------------------------------------------------- specifications

\* the steps of run r and the timer and cancel() callbacks aimed at it
Step(r) ==
  \/ Start(r) \/ BeginListen(r) \/ BeginSend(r)
  \/ ListenOk(r) \/ ListenRaised(r) \/ ListenCancelled(r)
  \/ NatRegister(r) \/ NatResume(r)
  \/ TimerFire(r) \/ Cancel(r)
  \/ PubSuccess(r) \/ PubTimeout(r) \/ PubCancelled(r)
  \/ SleepDone(r) \/ SleepCancelled(r)
  \/ StunSuccess(r) \/ StunTimeout(r) \/ StunCancelled(r)

\* the callbacks of the transport and of the peer's connection
Env ==
  \/ ListenDone
  \/ ListenFail
  \/ \E a \in Addrs, m \in Messages : process_nat_packet(a, m)
  \/ \E a \in Addrs, m \in Messages : datagram_received(a, m)

\* one run of determine_connectivity, on a fresh or an already used _natserver
Next == Step(1) \/ Env

Spec == Init /\ [][Next]_vars

\* NatHelper alone, driven by callers of wait_for_natpacket
NextNat ==
  \/ \E w \in Runs, m \in NatTexts, s \in NatSenders : NatCall(w, m, s)
  \/ \E w \in Runs : NatRegister(w) \/ NatResume(w) \/ NatCancel(w)
  \/ \E a \in Addrs, m \in NatTexts : process_nat_packet(a, m)

InitNat == Init /\ natserver.obj = None

SpecNat == InitNat /\ [][NextNat]_vars

\* the steps of run r, its timers and cancel(), when no packet ever comes for it
Unanswered(r) ==
  \/ Start(r) \/ BeginListen(r) \/ BeginSend(r)
  \/ ListenOk(r) \/ ListenRaised(r) \/ ListenCancelled(r)
  \/ NatRegister(r) \/ NatResume(r)
  \/ TimerFire(r) \/ Cancel(r)
  \/ PubTimeout(r) \/ PubCancelled(r)
  \/ SleepDone(r) \/ SleepCancelled(r)
  \/ StunTimeout(r) \/ StunCancelled(r)

\* two runs that share _natserver, created by the first of them to take a step
NextListen == Unanswered(1) \/ Unanswered(2) \/ ListenDone \/ ListenFail

SpecListen == InitNat /\ [][NextListen]_vars

\* the steps of run r and its timers when nobody cancels it
Uncancelled(r) ==
  \/ Start(r) \/ BeginSend(r)
  \/ NatRegister(r) \/ NatResume(r)
  \/ TimerFire(r)
  \/ PubSuccess(r) \/ PubTimeout(r)
  \/ SleepDone(r)
  \/ StunSuccess(r) \/ StunTimeout(r)

\* the packets that come, all from one address
WireAddr == <<"203.0.113.9", 51000>>
Packets ==
  \/ \E m \in Messages : process_nat_packet(WireAddr, m)
  \/ \E m \in Messages : datagram_received(WireAddr, m)

\* two runs with distinct identifiers on one NatHelper and a listening _natserver
InitTwo == Init /\ natserver.listen = "ok"
NextTwo == Uncancelled(1) \/ Uncancelled(2) \/ Packets

SpecTwo == InitTwo /\ [][NextTwo]_vars

\* the loop runs the task at the head of its ready queue
LoopStep(r) ==
  \/ BeginListen(r) \/ BeginSend(r)
  \/ ListenOk(r) \/ ListenRaised(r) \/ ListenCancelled(r)
  \/ NatRegister(r) \/ NatResume(r)
  \/ PubSuccess(r) \/ PubTimeout(r) \/ PubCancelled(r)
  \/ SleepDone(r) \/ SleepCancelled(r)
  \/ StunSuccess(r) \/ StunTimeout(r) \/ StunCancelled(r)

\* the loop keeps running ready tasks, armed timers fire, listen() ends
FairSpec ==
  /\ Spec
  /\ WF_vars(LoopStep(1))
  /\ WF_vars(TimerFire(1))
  /\ WF_vars(ListenDone \/ ListenFail)

\* ---------------------------------------------------------------- claims

Terminated(r) == pc[r] \in {"done", "raised"}
StunPlaces == {"stun_sleep", "stun_wait"}
Proxy == Connectivity(None, "PROXY")

C2_PublicEcho ==
  \A r \in Runs :
    hist[r].pubHit /\ hist[r].cancels = 0 =>
      /\ round[r] = 0
      /\ (pc[r] = "done" =>
            result[r] = Connectivity(FormatAddr(remote_addr(r)), "PUBLIC"))

\* C3: a run not cancelled in its STUN phase, in one of whose rounds the exact hello
\* text arrived before the round's deadline, returns STUN with the source address
\* of that datagram.
C3_StunAddr ==
  \A r \in Runs :
    pc[r] = "done" /\ hist[r].stunSrc # None /\ hist[r].cancelAt \cap StunPlaces = {} =>
      result[r] = Connectivity(FormatAddr(hist[r].stunSrc), "STUN")

C3_Witness ==
  /\ pc[1] = "done" /\ round[1] = 2 /\ hist[1].stunSrc # None
  /\ hist[1].stunSrc # remote_addr(1)
  /\ result[1] = Connectivity(FormatAddr(hist[1].stunSrc), "STUN")

\* C4: a run to which no matching packet was delivered in the PUBLIC phase and none
\* in any STUN round returns PROXY with no address.
C4_NoPacketProxy ==
  \A r \in Runs :
    pc[r] = "done" /\ ~hist[r].pubAny /\ ~hist[r].stunAny => result[r] = Proxy

C4_Witness ==
  /\ pc[1] = "done" /\ ~hist[1].pubAny /\ ~hist[1].stunAny /\ hist[1].cancels = 0
  /\ round[1] = StunRounds /\ natserver.listen = "ok" /\ result[1] = Proxy

\* C5: a run cancelled at a suspension point of the STUN phase raises nothing,
\* starts no further round and returns PROXY with no address.
C5_CancelInStun ==
  \A r \in Runs :
    hist[r].cancelAt \cap StunPlaces # {} =>
      /\ pc[r] # "raised"
      /\ round[r] = hist[r].cancelRound
      /\ (pc[r] = "done" => result[r] = Proxy)

\* C6: a future is resolved by the packet handler only while it is pending and kept
\* under its text, gets that packet's (source, message) and leaves the table; a
\* resolved future is never changed again (a second packet with the same text does
\* nothing), and the handler raises no error.
C6_ResolvesOnce ==
  [][/\ \A w \in Runs :
          /\ fut[w].state = "result" => fut'[w] = fut[w]
          /\ fut[w].state = "pending" /\ fut'[w].state = "result" =>
               /\ nat_packets[coro[w].message] = w
               /\ nat_packets'[coro[w].message] = NoFut
               /\ fut'[w].value[2] = coro[w].message
               /\ fut'[w].value[1] \in Addrs
     /\ ~error']_vars

C6_Witness ==
  \E w \in Runs :
    /\ hist[w].dup /\ fut[w].state = "result" /\ coro[w].st = "awaiting"
    /\ nat_packets[coro[w].message] = NoFut /\ ~error

\* C7: the table keeps one future per text and the last registration wins: a packet
\* resolves only the newest registration made for its text, so a superseded future
\* is never resolved.
C7_LastWins ==
  [][\A w \in Runs :
       fut[w].state = "pending" /\ fut'[w].state = "result" =>
         \A v \in Runs \ {w} :
           coro[v].message = coro[w].message => coro[v].seq < coro[w].seq]_vars

C7_Witness ==
  \E v, w \in Runs :
    /\ coro[v].message = coro[w].message /\ coro[v].seq = 1 /\ coro[w].seq = 2
    /\ fut[v].state = "pending" /\ fut[w].state = "result"
    /\ hist[w].dup

\* C8: a returned result has an address exactly when its level is PUBLIC or STUN.
C8_AddrIffLevel ==
  \A r \in Runs :
    pc[r] = "done" =>
      /\ result[r].state \in ConnectivityState
      /\ (result[r].addr # None) <=> (result[r].state \in {"PUBLIC", "STUN"})

C8_Witness ==
  /\ pc[1] = "done" /\ hist[1].cancelAt = {"stun_sleep"}
  /\ result[1].state = "PROXY" /\ result[1].addr = None

\* C9: wait_for_natpacket returns the future's (source, message) only if the source
\* is the sender asked for (or none was asked for) and the text is the awaited one;
\* resolved by a packet from another source it returns None.
C9_SenderFilter ==
  \A w \in Runs :
    coro[w].st = "returned" =>
      /\ coro[w].ret # None =>
           /\ coro[w].ret = fut[w].value
           /\ coro[w].sender \in {None, fut[w].value[1]}
           /\ fut[w].value[2] = coro[w].message
      /\ coro[w].sender \notin {None, fut[w].value[1]} => coro[w].ret = None
      /\ coro[w].sender \in {None, fut[w].value[1]} => coro[w].ret = fut[w].value

C9_Witness ==
  \E w \in Runs :
    /\ coro[w].st = "returned" /\ coro[w].sender # None
    /\ fut[w].value[1] # coro[w].sender /\ coro[w].ret = None

\* C10: when the listen() a run called fails and the run is not cancelled meanwhile,
\* the run ends by raising that failure and returns no result.
C10_ListenFailure ==
  \A r \in Runs :
    /\ natserver.listener = r /\ natserver.listen = "failed"
    /\ pc[r] # "listen" /\ hist[r].cancels = 0
    => pc[r] = "raised" /\ exc[r] = "OSError" /\ result[r] = NoResult

C10_Witness ==
  /\ natserver.listener = 1 /\ natserver.listen = "failed"
  /\ pc[1] = "raised" /\ exc[1] = "OSError" /\ result[1] = NoResult

\* C11: _natserver is made once and listen() is called once, by the first run to
\* call send_natpacket, whatever the interleaving of the runs.
C11_Singleton ==
  /\ natserver.made <= 1
  /\ natserver.listens <= 1
  /\ \A r \in Runs :
       pc[r] \notin {"init", "start"} =>
         natserver.made = 1 /\ natserver.listens = 1 /\ natserver.listener \in Runs

C11_Witness ==
  /\ pc[1] = "listen" /\ pc[2] = "pub_wait"
  /\ natserver.listener = 1 /\ natserver.made = 1 /\ natserver.listens = 1

\* the phase a run is in: not started, TEST_PUBLIC, TEST_STUN, ended
Phase(p) ==
  CASE p = "init" -> 0
    [] p \in {"start", "listen", "pub_wait"} -> 1
    [] p \in {"stun_sleep", "stun_wait"} -> 2
    [] OTHER -> 3

\* C12: a run never goes back to an earlier phase; its first relay request is made
\* at the step that ends the PUBLIC wait by its timeout or a cancel, without a
\* result; once a relay request was made the result is never PUBLIC, whatever
\* packet comes later, and a returned result never changes.
C12_PhaseOrder ==
  [][\A r \in Runs :
       /\ Phase(pc'[r]) >= Phase(pc[r])
       /\ round[r] = 0 /\ round'[r] >= 1 =>
            /\ pc[r] = "pub_wait" /\ pc'[r] = "stun_sleep" /\ round'[r] = 1
            /\ tfired[r] \/ cancelReq[r]
            /\ coro[r].st # "returned" \/ cancelReq[r]
       /\ Phase(pc'[r]) = 2 => round'[r] >= 1
       /\ round'[r] >= 1 => result'[r].state # "PUBLIC"
       /\ Terminated(r) => pc'[r] = pc[r] /\ result'[r] = result[r]]_vars

C12_Witness ==
  /\ hist[1].late /\ fut[1].state = "cancelled"
  /\ pc[1] = "done" /\ round[1] >= 1 /\ result[1].state = "STUN"

C14_TimeoutLikeCancel ==
  [][\A r \in Runs :
       pc[r] = "pub_wait" /\ pc'[r] # pc[r] /\ (cancelReq[r] \/ coro[r].st # "returned") =>
         /\ pc'[r] = "stun_sleep" /\ round'[r] = 1
         /\ waiters'[HelloMessage(identifier(r))] = r /\ sfut'[r] = PendingFuture
         /\ fut' = CancelFut(fut, coro, r) /\ coro' = CancelCoro(fut, coro, r)
         /\ ~cancelReq'[r]
         /\ result'[r] = NoResult /\ exc'[r] = "none"]_vars

C14_Witness ==
  /\ hist[1].cancelAt = {"pub_wait"} /\ ~cancelReq[1] /\ ~tfired[1]
  /\ pc[1] = "stun_sleep" /\ round[1] = 1 /\ waiters[HelloMessage(identifier(1))] = 1

\* C15: when a run hands its first probe to the transport, nat_packets already
\* keeps the run's future under the PUBLIC text.
C15_RegisteredBeforeSend ==
  [][\A r \in Runs :
       hist[r].sends = 0 /\ hist'[r].sends > 0 =>
         nat_packets[PublicMessage(identifier(r))] = r]_vars

\* C16: once determine_connectivity has returned or raised, nat_packets keeps no
\* future that the run registered.
C16_NoEntryAfterRun ==
  \A r \in Runs :
    Terminated(r) => nat_packets[PublicMessage(identifier(r))] # r

\* C17, as stated: every run that has ended has sent exactly 3 probes.
C17_ThreeProbesAlways ==
  \A r \in Runs : Terminated(r) => hist[r].sends = PublicSends

\* C17: a run that gets past listen() sends exactly 3 probes, all at the step that
\* begins the wait for the echo, and none later; a run whose listen() failed, or
\* that was cancelled in listen(), sends none.
C17_ThreeProbes ==
  [][\A r \in Runs :
       /\ pc[r] \in {"init", "start", "listen"} => hist[r].sends = 0
       /\ pc'[r] \in {"pub_wait", "stun_sleep", "stun_wait"} => hist'[r].sends = PublicSends
       /\ hist'[r].sends # hist[r].sends =>
            pc[r] \in {"start", "listen"} /\ pc'[r] = "pub_wait"
       /\ Terminated(r) /\ hist[r].sends # PublicSends =>
            /\ hist[r].sends = 0 /\ natserver.listener = r
            /\ natserver.listen = "failed" \/ "listen" \in hist[r].cancelAt]_vars

C17_Witness ==
  /\ pc[1] = "done" /\ hist[1].sends = PublicSends /\ round[1] = StunRounds
  /\ hist[1].earlySends = 0 /\ result[1].state = "STUN"

\* C18: the packet handler does nothing for a text that has no key in nat_packets
\* or whose future is done: a done future keeps its outcome, such a key keeps its
\* value until a new registration, no error is raised, and a PUBLIC echo that comes
\* after the wait timed out changes nothing of the run or the table.
C18_LatePacketNoOp ==
  [][/\ ~error'
     /\ \A w \in Runs : Done(fut[w]) => fut'[w] = fut[w]
     /\ \A m \in Messages :
          nat_packets[m] = NoFut \/ Done(fut[nat_packets[m]]) =>
            \/ nat_packets'[m] = nat_packets[m]
            \/ \E w \in Runs : /\ coro[w].st = "created" /\ coro'[w].st = "awaiting"
                                /\ coro[w].message = m /\ nat_packets'[m] = w
     /\ \A r \in Runs :
          hist'[r].late /\ ~hist[r].late =>
            UNCHANGED <<pc, round, ready, coro, fut, nat_packets, natserver, waiters,
                        sfut, tfired, cancelReq, result, exc>>]_vars

C18_Witness ==
  /\ hist[1].late /\ hist[1].cancels = 0 /\ ~hist[1].pubAny
  /\ nat_packets[PublicMessage(identifier(1))] = 1 /\ fut[1].state = "cancelled"
  /\ pc[1] = "done" /\ result[1] = Proxy /\ ~error

\* what belongs to run r: its position, its tasks and futures, its result, the
\* entries kept under its two texts, and the order of its tasks in the ready queue
Local(r) ==
  <<pc[r], round[r], coro[r], fut[r], sfut[r], tfired[r], cancelReq[r], result[r], exc[r],
    nat_packets[PublicMessage(identifier(r))], waiters[HelloMessage(identifier(r))],
    SelectSeq(ready, LAMBDA t : t[2] = r)>>

\* C19: runs with distinct identifiers do not interfere: a future of a run is
\* resolved only by a packet whose text carries that run's identifier, and a step
\* that changes anything of one run (a step of that run, or a packet with its text)
\* leaves all that belongs to any other run as it was: no step changes two runs.
C19_NoInterference ==
  [][/\ \A w \in Runs :
          /\ fut[w].state = "pending" /\ fut'[w].state = "result" =>
               fut'[w].value[2] = <<"Are you public?", identifier(w)>>
          /\ sfut[w].state = "pending" /\ sfut'[w].state = "result" =>
               sfut'[w].value[1] = <<"Hello", identifier(w)>>
     /\ Cardinality({r \in Runs : <<Local(r), hist[r]>>' # <<Local(r), hist[r]>>}) <= 1
     /\ ~error']_vars

C19_Witness ==
  /\ pc[1] = "done" /\ result[1].state = "PUBLIC"
  /\ pc[2] = "done" /\ result[2].state = "STUN" /\ hist[2].late
  /\ hist[1].late

\* C20: every datagram a run hands to _natserver, and every use of _natserver in
\* test_stun, comes after the one listen() has completed.
C20_SendAfterListen ==
  \A r \in Runs :
    /\ hist[r].earlySends = 0
    /\ round[r] >= 1 => natserver.listen = "ok"

====
